---- MODULE Spec2Model ----
(***************************************************************************)
(* The notebook main.ipynb as a state machine: one action per code cell,   *)
(* the loop of model.fit unrolled one epoch per step and the loop of       *)
(* show_sample_predictions one draw per step.  Library calls are modelled  *)
(* by what the call named at the source line does with the arguments the    *)
(* notebook passes (flow_from_directory, compute_class_weight,             *)
(* EarlyStopping, confusion_matrix).                                       *)
(*                                                                         *)
(* Abstractions: parameter tensors are version stamps (0 = pretrained /   *)
(* freshly initialised, e = written by the training pass of epoch e); a    *)
(* real number is an exact fraction <<num, den>>; a validation loss is     *)
(* <<"fin", n>>, <<"inf", 0>> or <<"nan", 0>>.  What the arithmetic of the  *)
(* network decides is an input of the run, drawn in the initial state: the *)
(* validation loss each epoch will measure (lossPlan) and the arg-max      *)
(* class of the trained network on each validation image (classifier).     *)
(***************************************************************************)
EXTENDS Integers, Sequences, FiniteSets, TLC

VARIABLES
    pc,              \* the notebook cell that runs next
    errorAt,         \* the cell that raised, "none" while nothing has
    classCount,      \* class sub-directories under data/train
    valClassCount,   \* class sub-directories under data/val
    trainCounts,     \* images per class in data/train (train_generator.classes, sorted)
    valCounts,       \* images per class in data/val   (val_generator.classes, sorted)
    trainBatchIndex, \* train_generator.batch_index
    valBatchIndex,   \* val_generator.batch_index
    valBatchesSeen,  \* val_generator.total_batches_seen
    class_weight_dict,
    numLayers,       \* len(base_model.layers)
    trainable,       \* layer -> trainable flag
    weights,         \* layer -> parameter version
    restoreAtTrainEnd, \* EarlyStopping restores in on_train_end (Keras 3) or only when it stops (tf.keras 2.x)
    epoch,           \* epochs completed by model.fit
    wait,            \* EarlyStopping.wait
    best,            \* EarlyStopping.best
    best_weights,    \* EarlyStopping.best_weights, None until the first epoch
    stop_training,   \* model.stop_training
    lossPlan,        \* the validation loss the e-th epoch measures
    history,         \* history.history['val_loss']
    snapshots,       \* the parameters at the end of each epoch (history variable)
    classifier,      \* validation sample -> arg-max class of the trained network
    visited,         \* the samples the evaluator's pass fed to the network, in order
    y_pred,
    y_true,
    cm,              \* the confusion matrix, empty before the evaluator
    cmLabels,        \* the labels indexing cm's rows and columns
    numImages,       \* num_images of show_sample_predictions
    drawn,           \* loop variable i of show_sample_predictions
    lastDraw         \* <<index, pred_class, true_class>> of the last draw

vars == <<pc, errorAt, classCount, valClassCount, trainCounts, valCounts,
          trainBatchIndex, valBatchIndex, valBatchesSeen, class_weight_dict,
          numLayers, trainable, weights, restoreAtTrainEnd, epoch, wait, best,
          best_weights, stop_training, lossPlan, history, snapshots, classifier,
          visited,
          y_pred, y_true, cm, cmLabels, numImages, drawn, lastDraw>>

dataVars  == <<classCount, valClassCount, trainCounts, valCounts>>
genVars   == <<trainBatchIndex, valBatchIndex, valBatchesSeen>>
modelVars == <<numLayers, trainable, weights>>
fitVars   == <<epoch, wait, best, best_weights, stop_training, history, snapshots>>
evalVars  == <<visited, y_pred, y_true, cm, cmLabels>>
drawVars  == <<drawn, lastDraw>>
inputVars == <<restoreAtTrainEnd, lossPlan, classifier, numImages>>

None == << >>

(***************************************************************************)
(* Bounds of the model.                                                    *)
(***************************************************************************)
MaxClasses == 3      \* class sub-directories per split: 1..MaxClasses
MaxCount   == 2      \* small per-class image counts: 0..MaxCount
MaxLoss    == 2      \* finite validation losses: 0..MaxLoss

(***************************************************************************)
(* Program constants.                                                      *)
(***************************************************************************)
BatchSize      == 16
PlotCount      == 8
Unfreeze       == 40
ResNet50Layers == 175
HeadUnits      == 2
EpochsOneMore  == 3 + 1
Epochs         == 3
Patience       == 3
NumImagesDefault == 10
Rows           == 2
Cols           == 5

(***************************************************************************)
(* Arithmetic helpers.                                                     *)
(***************************************************************************)
Min(a, b) == IF a < b THEN a ELSE b
Max(a, b) == IF a > b THEN a ELSE b

RECURSIVE SumUpTo(_, _)
SumUpTo(f, k) == IF k < 0 THEN 0 ELSE f[k] + SumUpTo(f, k - 1)

\* The number of entries of a per-class count table 0..k-1 -> Nat.
Total(counts) == SumUpTo(counts, Cardinality(DOMAIN counts) - 1)

\* ceil(n / b): len() of a directory iterator.
CeilDiv(n, b) == (n + b - 1) \div b

\* generator.classes: the class index of every file, classes in directory
\* order and the files of one class together, 0-based position i.
ClassAt(counts, i) ==
    CHOOSE c \in DOMAIN counts :
        /\ SumUpTo(counts, c - 1) <= i
        /\ i < SumUpTo(counts, c)

ClassesOf(counts) == [i \in 1..Total(counts) |-> ClassAt(counts, i - 1)]

(***************************************************************************)
(* Input domains.                                                          *)
(***************************************************************************)
ClassIdx(k) == 0..(k - 1)

\* Per-class image counts of the training split: small ones, the size of
\* the plotted grid, and the 100 / 20 scenario.
TrainCountValues == (0..MaxCount) \cup {PlotCount, 20, 100}

\* Validation splits: at least one image; small ones, and ones that span
\* two and three batches.
SmallValCounts(k) ==
    {f \in [ClassIdx(k) -> 0..MaxCount] : Total(f) >= 1}
BigValCounts(k) ==
    IF k = 2
    THEN {[c \in ClassIdx(k) |-> IF c = 0 THEN BatchSize ELSE 1],
          [c \in ClassIdx(k) |-> IF c = 0 THEN BatchSize + 1 ELSE BatchSize]}
    ELSE {}

LayerChoices == {Unfreeze - 1, Unfreeze, Unfreeze + 1, ResNet50Layers}

Inf == <<"inf", 0>>
NaN == <<"nan", 0>>
Fin(n) == <<"fin", n>>
Losses == {Fin(n) : n \in 0..MaxLoss} \cup {Inf, NaN}

IsFinite(x) == x[1] = "fin"

\* EarlyStopping.best before the first epoch, for a monitored loss.
InitialBest == Inf

\* The networks a validation split of n images can meet: every map for a
\* small split, and for a large one the constant maps, the alternating
\* ones and the ones that split at the first batch boundary.
Classifiers(n) ==
    IF n <= 2 * MaxCount
    THEN [1..n -> ClassIdx(HeadUnits)]
    ELSE {[i \in 1..n |-> 0], [i \in 1..n |-> 1],
          [i \in 1..n |-> i % 2], [i \in 1..n |-> (i + 1) % 2],
          [i \in 1..n |-> IF i <= BatchSize THEN 0 ELSE 1],
          [i \in 1..n |-> IF i <= BatchSize THEN 1 ELSE 0]}

NumImagesChoices == {0, 1, NumImagesDefault, Rows * Cols + 1}

(***************************************************************************)
(* The state before the first code cell: the archive is extracted, nothing *)
(* of the notebook has run.                                                *)
(***************************************************************************)
InitWith(trainChoices, valChoices, layerChoices, lossPlans, nets, imageChoices) ==
    /\ pc = "load"
    /\ errorAt = "none"
    /\ trainCounts \in trainChoices
    /\ valCounts \in valChoices
    /\ classCount = Cardinality(DOMAIN trainCounts)
    /\ valClassCount = Cardinality(DOMAIN valCounts)
    /\ trainBatchIndex = 0
    /\ valBatchIndex = 0
    /\ valBatchesSeen = 0
    /\ class_weight_dict = None
    /\ numLayers \in layerChoices
    /\ trainable = None
    /\ weights = None
    /\ restoreAtTrainEnd \in BOOLEAN
    /\ lossPlan \in lossPlans
    /\ epoch = 0
    /\ wait = 0
    /\ best = InitialBest
    /\ best_weights = None
    /\ stop_training = FALSE
    /\ history = << >>
    /\ snapshots = << >>
    /\ classifier \in nets[Total(valCounts)]
    /\ visited = << >>
    /\ y_pred = << >>
    /\ y_true = << >>
    /\ cm = None
    /\ cmLabels = {}
    /\ numImages \in imageChoices
    /\ drawn = 0
    /\ lastDraw = None

ScenarioTrain == {[c \in ClassIdx(k) |-> IF c = 0 THEN 100 ELSE 20] : k \in 1..MaxClasses}
AllTrain      == UNION {[ClassIdx(k) -> TrainCountValues] : k \in 1..MaxClasses}
OneEachVal    == {[c \in ClassIdx(k) |-> 1] : k \in 1..MaxClasses}
TwoClasses(S) == {f \in S : Cardinality(DOMAIN f) = HeadUnits}
AllVal        == SmallValCounts(HeadUnits) \cup BigValCounts(HeadUnits)

AllPlans      == [1..Epochs -> Losses]
FallingPlan   == {[e \in 1..Epochs |-> Fin(Epochs - e)]}

\* The sizes a validation split of the model can have.
ValSizes      == 0..(MaxClasses * (MaxCount + 1) + 2 * BatchSize + 1)
EchoNet       == [n \in ValSizes |-> {[i \in 1..n |-> i % HeadUnits]}]
AllNets       == [n \in ValSizes |-> Classifiers(n)]

\* The training-centred input space: the class counts of both splits, the
\* depth of the backbone, every plan of validation losses.
Init == InitWith(ScenarioTrain, OneEachVal, LayerChoices, AllPlans, EchoNet,
                 {NumImagesDefault})

\* The input space of the class imbalance estimator.
InitWeights == InitWith(AllTrain, TwoClasses(OneEachVal), {ResNet50Layers},
                        FallingPlan, EchoNet, {NumImagesDefault})

\* The input space of the evaluator and the sample predictor.
InitEval == InitWith(TwoClasses(ScenarioTrain), AllVal, {ResNet50Layers},
                     FallingPlan, AllNets, NumImagesChoices)

Raise(cell) ==
    /\ pc' = "error"
    /\ errorAt' = cell

(***************************************************************************)
(* Cell 954fd810: the two directory iterators and class_names.             *)
(***************************************************************************)
LoadData ==
    /\ pc = "load"
    /\ pc' = "visualise"
    /\ trainBatchIndex' = 0
    /\ valBatchIndex' = 0
    /\ valBatchesSeen' = 0
    /\ UNCHANGED <<errorAt, dataVars, class_weight_dict, modelVars,
                   inputVars, fitVars, evalVars, drawVars>>

(***************************************************************************)
(* Cell d8b52403: next(train_generator) and the grid of its first 8 images.*)
(***************************************************************************)
\* Iterator._flow_index: the batch index after one next().
NextBatchIndex(n, idx) ==
    IF n > ((idx * BatchSize) % n) + BatchSize THEN idx + 1 ELSE 0

FirstBatchSize(n) == Min(BatchSize, n)

Visualise ==
    /\ pc = "visualise"
    /\ LET n == Total(trainCounts) IN
        IF n = 0
        THEN /\ Raise("visualise")
             /\ UNCHANGED trainBatchIndex
        ELSE /\ trainBatchIndex' = NextBatchIndex(n, trainBatchIndex)
             /\ IF FirstBatchSize(n) < PlotCount
                THEN Raise("visualise")
                ELSE pc' = "weights" /\ UNCHANGED errorAt
    /\ UNCHANGED <<dataVars, valBatchIndex, valBatchesSeen, class_weight_dict,
                   modelVars, inputVars, fitVars, evalVars,
                   drawVars>>

(***************************************************************************)
(* Cell yTlMI-ajl7gh: compute_class_weight('balanced') and                 *)
(* dict(enumerate(class_weights)).                                         *)
(***************************************************************************)
\* np.unique(train_generator.classes)
Unique(counts) == {c \in DOMAIN counts : counts[c] > 0}

\* The j-th smallest element of a set of integers, j from 0.
Nth(S, j) == CHOOSE c \in S : Cardinality({d \in S : d < c}) = j

\* n_samples / (n_classes * np.bincount(y)) at the classes given, in the
\* order given: position j holds the weight of the j-th class of np.unique.
BalancedWeights(counts) ==
    LET present == Unique(counts)
        k == Cardinality(present)
    IN [j \in 0..(k - 1) |-> <<Total(counts), k * counts[Nth(present, j)]>>]

\* dict(enumerate(class_weights)): the keys are the positions.
EnumerateDict(arr) == [j \in DOMAIN arr |-> arr[j]]

ComputeClassWeights ==
    /\ pc = "weights"
    /\ class_weight_dict' = EnumerateDict(BalancedWeights(trainCounts))
    /\ pc' = "build"
    /\ UNCHANGED <<errorAt, dataVars, genVars, modelVars, inputVars, fitVars, evalVars, drawVars>>

(***************************************************************************)
(* Cell 146a9ba7: the backbone, the freeze of its early layers, the head.  *)
(***************************************************************************)
\* The length of the Python slice layers[:stop] of a list of n elements.
SliceStop(n, stop) ==
    IF stop < 0 THEN Max(n + stop, 0) ELSE Min(stop, n)

\* layers[:40]
FrozenLayersFirst(n) == 1..SliceStop(n, Unfreeze)

\* The backbone layers of `for layer in base_model.layers[:-40]`, layers
\* numbered from 1.
FrozenLayers(n) == 1..SliceStop(n, 0 - Unfreeze)

\* The layers of `model`: the backbone's, then the pooling and the dense
\* layer of the head.
ModelLayers(n) == 1..(n + 2)

BuildModel ==
    /\ pc = "build"
    /\ trainable' = [l \in ModelLayers(numLayers) |-> l \notin FrozenLayers(numLayers)]
    /\ weights' = [l \in ModelLayers(numLayers) |-> 0]
    /\ pc' = "fit"
    /\ UNCHANGED <<errorAt, dataVars, genVars, class_weight_dict, numLayers,
                   inputVars, fitVars, evalVars, drawVars>>

(***************************************************************************)
(* Cell 7c9332cd: model.fit(epochs=3) with EarlyStopping(monitor=          *)
(* 'val_loss', patience=3, restore_best_weights=True); one step per epoch. *)
(***************************************************************************)
\* np.less on validation losses: false as soon as one side is NaN.
Less(a, b) ==
    CASE a[1] = "nan" \/ b[1] = "nan" -> FALSE
      [] a[1] = "inf" -> FALSE
      [] b[1] = "inf" -> TRUE
      [] OTHER -> a[2] < b[2]

\* mode='max': np.greater.
IsImprovementMax(current, reference) == Less(reference, current)

\* EarlyStopping._is_improvement with min_delta = 0, mode 'auto' on a loss.
IsImprovement(current, reference) == Less(current, reference)

\* A head sized by the classes found.
LabelsFitAny(k) == TRUE

\* One-hot labels of k columns against the output of Dense(2).
LabelsFit(k) == k = HeadUnits

\* One training pass: every trainable layer is written, no frozen one.
TrainPass(w, e) == [l \in DOMAIN w |-> IF trainable[l] THEN e ELSE w[l]]

\* The number of batches of one pass over the validation iterator.
ValBatches == CeilDiv(Total(valCounts), BatchSize)

\* The loop of fit goes on to another epoch.
FitContinues(e, stop) == e < Epochs /\ ~stop

\* EarlyStopping.on_epoch_end stops training.
PatienceExceeded(w, e) == w >= Patience /\ e > 0

FitEpoch ==
    /\ pc = "fit"
    /\ IF ~LabelsFit(classCount)
       THEN \* the first training batch: labels of classCount columns
            \* against an output of HeadUnits columns
            /\ Raise("fit")
            /\ UNCHANGED <<genVars, weights, fitVars>>
       ELSE LET trained == TrainPass(weights, epoch + 1) IN
            IF ~LabelsFit(valClassCount)
            THEN \* the first validation batch, after the training pass
                 /\ Raise("fit")
                 /\ weights' = trained
                 /\ UNCHANGED <<genVars, fitVars>>
            ELSE LET val_loss == lossPlan[epoch + 1]
                     seeded   == IF best_weights = None THEN trained ELSE best_weights
                     improved == IsImprovement(val_loss, best)
                     wait1    == IF improved THEN 0 ELSE wait + 1
                     kept     == IF improved THEN trained ELSE seeded
                     stop     == ~improved /\ PatienceExceeded(wait1, epoch)
                     goOn     == FitContinues(epoch + 1, stop)
                     restore  == IF restoreAtTrainEnd THEN ~goOn ELSE stop
                 IN /\ valBatchesSeen' = valBatchesSeen + ValBatches
                    /\ history' = Append(history, val_loss)
                    /\ snapshots' = Append(snapshots, trained)
                    /\ best' = IF improved THEN val_loss ELSE best
                    /\ best_weights' = kept
                    /\ wait' = wait1
                    /\ stop_training' = stop
                    /\ epoch' = epoch + 1
                    /\ weights' = IF restore THEN kept ELSE trained
                    /\ pc' = IF goOn THEN "fit" ELSE "evaluate"
                    /\ UNCHANGED <<errorAt, trainBatchIndex, valBatchIndex>>
    /\ UNCHANGED <<dataVars, class_weight_dict, numLayers, trainable,
                   inputVars, evalVars, drawVars>>

(***************************************************************************)
(* Cell 24b86ee9: val_generator.reset(), model.predict over the iterator,  *)
(* the row-normalised confusion matrix and its display.                    *)
(***************************************************************************)
\* shuffle=True: a permutation of np.arange(n), here the reversal.
IndexArrayShuffled(n) == [i \in 1..n |-> n - i]

\* Iterator._set_index_array with shuffle=False: np.arange(n).
IndexArray(n) == [i \in 1..n |-> i - 1]

\* Iterator.__getitem__(idx): index_array[batch_size*idx : batch_size*(idx+1)].
BatchIndices(arr, idx) ==
    SubSeq(arr, BatchSize * idx + 1, Min(BatchSize * (idx + 1), Len(arr)))

\* The samples of batches 0 .. last, concatenated: one pass of predict.
RECURSIVE PassOrder(_, _)
PassOrder(arr, last) ==
    IF last < 0 THEN << >>
    ELSE PassOrder(arr, last - 1) \o BatchIndices(arr, last)

\* np.argmax(model.predict(...), axis=1) on the samples of one pass; the
\* forward pass reads the parameters and writes none.
PredictClasses(net, order) == [i \in 1..Len(order) |-> net[order[i] + 1]]

\* A forward pass that writes the trainable parameters.
AfterPredictTraining(w) == [l \in DOMAIN w |-> IF trainable[l] THEN w[l] + 1 ELSE w[l]]

\* The parameters after model.predict.
AfterPredict(w) == w

\* unique_labels(y_true, y_pred)
UniqueLabels(t, p) == {t[i] : i \in DOMAIN t} \cup {p[i] : i \in DOMAIN p}

CountPairs(t, p, a, b) == Cardinality({i \in DOMAIN t : t[i] = a /\ p[i] = b})

RowSum(t, a) == Cardinality({i \in DOMAIN t : t[i] = a})

\* Float division under np.errstate(all='ignore'): 0/0 is NaN.
Divide(a, b) == IF b = 0 THEN <<0, 0>> ELSE <<a, b>>

IsNaNFraction(q) == q[2] = 0

\* No np.nan_to_num.
KeepNaN(q) == q

\* np.nan_to_num on one entry.
NanToNum(q) == IF IsNaNFraction(q) THEN <<0, 1>> ELSE q

\* confusion_matrix(y_true, y_pred, normalize='true')
ConfusionMatrix(t, p) ==
    LET labels == UniqueLabels(t, p) IN
    [rc \in labels \X labels |->
        NanToNum(Divide(CountPairs(t, p, rc[1], rc[2]), RowSum(t, rc[1])))]

Evaluate ==
    /\ pc = "evaluate"
    /\ LET n      == Total(valCounts)
           order  == PassOrder(IndexArray(n), ValBatches - 1)
           pred   == PredictClasses(classifier, order)
           truth  == ClassesOf(valCounts)
       IN /\ valBatchIndex' = 0
          /\ valBatchesSeen' = valBatchesSeen + ValBatches
          /\ visited' = order
          /\ weights' = AfterPredict(weights)
          /\ y_pred' = pred
          /\ y_true' = truth
          /\ cmLabels' = UniqueLabels(truth, pred)
          /\ cm' = ConfusionMatrix(truth, pred)
          /\ IF Cardinality(UniqueLabels(truth, pred)) = classCount
             THEN pc' = "samples" /\ UNCHANGED errorAt
             ELSE \* display_labels has classCount names for a smaller
                  \* matrix: the tick labels are rejected or not, by the
                  \* plotting library's version
                  \/ Raise("evaluate")
                  \/ pc' = "samples" /\ UNCHANGED errorAt
    /\ UNCHANGED <<dataVars, trainBatchIndex, class_weight_dict, numLayers,
                   trainable, inputVars, fitVars, drawVars>>

(***************************************************************************)
(* Cell 35ca0bc8: show_sample_predictions; one step per draw.              *)
(***************************************************************************)
CallShowSamplePredictions ==
    /\ pc = "samples"
    /\ drawn' = 0
    /\ lastDraw' = None
    /\ pc' = "draw"
    /\ UNCHANGED <<errorAt, dataVars, genVars, class_weight_dict, modelVars,
                   inputVars, fitVars, evalVars>>

SampleDraw ==
    /\ pc = "draw"
    /\ drawn < numImages
    /\ \E index \in 0..(Total(valCounts) - 1) :
          /\ weights' = AfterPredict(weights)
          /\ IF drawn >= Rows * Cols
             THEN \* axes[i] past the grid
                  /\ Raise("samples")
                  /\ UNCHANGED <<drawn, lastDraw>>
             ELSE /\ lastDraw' = <<index, classifier[index + 1],
                                   ClassAt(valCounts, index)>>
                  /\ drawn' = drawn + 1
                  /\ UNCHANGED <<pc, errorAt>>
    /\ UNCHANGED <<dataVars, genVars, class_weight_dict, numLayers, trainable,
                   inputVars, fitVars, evalVars>>

FinishSamples ==
    /\ pc = "draw"
    /\ drawn = numImages
    /\ pc' = "done"
    /\ UNCHANGED <<errorAt, dataVars, genVars, class_weight_dict, modelVars,
                   inputVars, fitVars, evalVars, drawVars>>

Next ==
    \/ LoadData
    \/ Visualise
    \/ ComputeClassWeights
    \/ BuildModel
    \/ FitEpoch
    \/ Evaluate
    \/ CallShowSamplePredictions
    \/ SampleDraw
    \/ FinishSamples

Spec == Init /\ [][Next]_vars

SpecWeights == InitWeights /\ [][Next]_vars

SpecEval == InitEval /\ [][Next]_vars

(***************************************************************************)
(* Vocabulary of the properties.                                           *)
(***************************************************************************)
FitReturned == pc \in {"evaluate", "samples", "draw", "done"}
              \/ (pc = "error" /\ errorAt \in {"evaluate", "samples"})

Evaluated == pc \in {"samples", "draw", "done"}
            \/ (pc = "error" /\ errorAt \in {"evaluate", "samples"})

WeightsComputed == pc \in {"build", "fit", "evaluate", "samples", "draw", "done"}
                  \/ (pc = "error" /\ errorAt # "visualise")

ModelBuilt == weights # None

\* Fractions with non-zero denominators.
FracEq(p, q)   == p[1] * q[2] = q[1] * p[2]
FracLess(p, q) == p[1] * q[2] < q[1] * p[2]
FracAdd(p, q)  == <<p[1] * q[2] + q[1] * p[2], p[2] * q[2]>>
FracIsOne(p)   == p[2] # 0 /\ p[1] = p[2]
FracIsZero(p)  == p[2] # 0 /\ p[1] = 0

\* The best validation loss over the first i epochs of h, by the order of
\* the losses themselves.
RECURSIVE RunningBest(_, _)
RunningBest(h, i) ==
    IF i = 0 THEN Inf
    ELSE LET b == RunningBest(h, i - 1)
         IN IF Less(h[i], b) THEN h[i] ELSE b

\* The number of consecutive non-improving epochs that end h[1..i].
RECURSIVE StallAt(_, _)
StallAt(h, i) ==
    IF i = 0 THEN 0
    ELSE IF Less(h[i], RunningBest(h, i - 1)) THEN 0
         ELSE 1 + StallAt(h, i - 1)

Stall(h) == StallAt(h, Len(h))

\* The first epoch whose validation loss is the lowest finite one of h.
BestEpoch(h) ==
    CHOOSE i \in DOMAIN h :
        /\ IsFinite(h[i])
        /\ \A j \in DOMAIN h :
              IsFinite(h[j]) =>
                  \/ h[i][2] < h[j][2]
                  \/ (h[i][2] = h[j][2] /\ i <= j)

SomeFinite(h) == \E i \in DOMAIN h : IsFinite(h[i])
AllFinite(h)  == \A i \in DOMAIN h : IsFinite(h[i])

\* A step of fit that runs the training pass of one more epoch.
RunsEpoch == pc = "fit" /\ (epoch' # epoch \/ weights' # weights)

(***************************************************************************)
(* C1.  model.fit never runs an epoch once 3 consecutive non-improving     *)
(* epochs have been observed, and never runs more than 3 epochs.           *)
(***************************************************************************)
C1_NoEpochPastPatienceOrBudget ==
    [][RunsEpoch => (Stall(history) < 3 /\ epoch + 1 <= 3 /\ epoch' <= 3)]_vars

C1_Witness ==
    /\ pc = "evaluate"
    /\ epoch = 3
    /\ Stall(history) = 3
    /\ stop_training

(***************************************************************************)
(* C2.  When fit has returned, the parameters are the ones the model had   *)
(* at the end of the epoch with the lowest validation loss of the run.     *)
(***************************************************************************)
C2_BestRestoredAtTermination ==
    (FitReturned /\ SomeFinite(history)) =>
        weights = snapshots[BestEpoch(history)]

(***************************************************************************)
(* C3.  class_weight_dict gives every class index c that occurs in the     *)
(* training labels the weight total / (num_classes * count_c): positive,   *)
(* larger for the rarer class, in inverse proportion to the counts.        *)
(***************************************************************************)
C3_ClassWeightPerClassIndex ==
    WeightsComputed =>
        LET present == Unique(trainCounts)
            k == Cardinality(present)
        IN /\ \A c \in present :
                 /\ c \in DOMAIN class_weight_dict
                 /\ FracEq(class_weight_dict[c], <<Total(trainCounts), k * trainCounts[c]>>)
                 /\ FracLess(<<0, 1>>, class_weight_dict[c])
           /\ \A c, d \in present :
                 /\ trainCounts[c] < trainCounts[d] =>
                        FracLess(class_weight_dict[d], class_weight_dict[c])
                 /\ FracEq(<<class_weight_dict[c][1] * trainCounts[c], class_weight_dict[c][2]>>,
                           <<class_weight_dict[d][1] * trainCounts[d], class_weight_dict[d][2]>>)

(***************************************************************************)
(* C4.  Every row of the evaluator's confusion matrix sums to 1.           *)
(***************************************************************************)
RECURSIVE RowTotal(_, _, _)
RowTotal(m, a, cols) ==
    IF cols = {} THEN <<0, 1>>
    ELSE LET b == CHOOSE x \in cols : TRUE
         IN FracAdd(m[<<a, b>>], RowTotal(m, a, cols \ {b}))

TrueLabels == {y_true[i] : i \in DOMAIN y_true}

C4_EveryRowSumsToOne ==
    Evaluated => \A a \in cmLabels : FracIsOne(RowTotal(cm, a, cmLabels))

\* C4 as amended: the rows of the classes that have a true sample sum to 1,
\* and the row of a class met only among the predictions is all zeros.
C4_RowsOfPresentClassesSumToOne ==
    Evaluated =>
        \A a \in cmLabels :
            IF a \in TrueLabels
            THEN FracIsOne(RowTotal(cm, a, cmLabels))
            ELSE \A b \in cmLabels : FracIsZero(cm[<<a, b>>])

C4_Witness ==
    /\ Evaluated
    /\ cmLabels = {0, 1}
    /\ TrueLabels = {0}
    /\ FracEq(cm[<<0, 0>>], <<1, 2>>)
    /\ FracEq(cm[<<0, 1>>], <<1, 2>>)
    /\ FracIsZero(cm[<<1, 0>>])
    /\ FracIsZero(cm[<<1, 1>>])

(***************************************************************************)
(* C5.  Whatever number of passes training made over the validation        *)
(* iterator, the evaluator's pass starts at the first validation sample    *)
(* and visits every sample once, in dataset order: y_pred[i] is the        *)
(* prediction for the sample whose true class is y_true[i].                *)
(***************************************************************************)
C5_EvaluatorPassInDatasetOrder ==
    Evaluated =>
        /\ Len(visited) = Total(valCounts)
        /\ \A i \in DOMAIN visited : visited[i] = i - 1
        /\ Len(y_pred) = Total(valCounts)
        /\ Len(y_true) = Total(valCounts)
        /\ \A i \in DOMAIN y_pred :
              /\ y_pred[i] = classifier[i]
              /\ y_true[i] = ClassAt(valCounts, i - 1)

C5_Witness ==
    /\ Evaluated
    /\ Total(valCounts) > 2 * BatchSize
    /\ valBatchesSeen = (epoch + 1) * ValBatches
    /\ epoch = 3
    /\ \E i, j \in DOMAIN y_pred : y_pred[i] # y_pred[j]

(***************************************************************************)
(* C6.  Only the training loop writes the model's parameters: the          *)
(* evaluator's forward pass and every draw of show_sample_predictions      *)
(* leave them as they were.                                                *)
(***************************************************************************)
C6_OnlyFitWritesParameters ==
    [][(weights' # weights) => pc \in {"build", "fit"}]_vars

C6_Witness ==
    /\ pc = "draw"
    /\ drawn = NumImagesDefault
    /\ epoch = 3
    /\ \E l \in DOMAIN weights : weights[l] # 0

(***************************************************************************)
(* C7.  Of a backbone of N layers exactly the first N-40 are frozen, the   *)
(* last 40 and the head are trainable, and the parameters of the frozen    *)
(* layers keep their pretrained values through training.                   *)
(***************************************************************************)
C7_FirstLayersFrozenForGood ==
    ModelBuilt =>
        /\ \A l \in 1..numLayers : trainable[l] <=> (l > numLayers - 40)
        /\ trainable[numLayers + 1] /\ trainable[numLayers + 2]
        /\ \A l \in 1..numLayers : ~trainable[l] => weights[l] = 0

C7_Witness ==
    /\ ModelBuilt
    /\ numLayers = ResNet50Layers
    /\ epoch = 3
    /\ ~trainable[numLayers - 40]
    /\ weights[numLayers - 40] = 0
    /\ weights[numLayers - 39] # 0
    /\ weights[numLayers + 2] # 0

(***************************************************************************)
(* C8.  With a number of classes other than 2 the pipeline fails in the    *)
(* Model Builder cell, and the training loop, the evaluator and the sample *)
(* predictor never run.                                                    *)
(***************************************************************************)
C8_FailsAtHeadConstruction ==
    (classCount # 2) =>
        /\ pc \notin {"fit", "evaluate", "samples", "draw", "done"}
        /\ (pc = "error" => errorAt \in {"visualise", "build"})

\* C8 as amended: the Model Builder cell completes whatever the number of
\* classes; the run fails no later than the first training batch of
\* model.fit, with no epoch completed and no parameter written, and the
\* evaluator and the sample predictor never run.
C8_FailsAtFirstTrainingBatch ==
    (classCount # 2) =>
        /\ pc \notin {"evaluate", "samples", "draw", "done"}
        /\ (pc = "error" => errorAt \in {"visualise", "fit"})
        /\ epoch = 0
        /\ history = << >>
        /\ ModelBuilt => \A l \in DOMAIN weights : weights[l] = 0

C8_Witness ==
    /\ classCount = 3
    /\ pc = "error"
    /\ errorAt = "fit"
    /\ ModelBuilt
    /\ epoch = 0

(***************************************************************************)
(* C9.  With every validation sample in one class and every prediction     *)
(* that class, the confusion matrix is 2 x 2: the row of the class is      *)
(* [1, 0] around its diagonal and the row of the absent class is NaN.      *)
(***************************************************************************)
C9_SingleClassMatrixIsTwoByTwo ==
    (Evaluated /\ \E c \in {0, 1} :
                    /\ \A i \in DOMAIN y_true : y_true[i] = c
                    /\ \A i \in DOMAIN y_pred : y_pred[i] = c) =>
        LET c == y_true[1]
            o == 1 - c
        IN /\ cmLabels = {0, 1}
           /\ FracIsOne(cm[<<c, c>>])
           /\ FracIsZero(cm[<<c, o>>])
           /\ IsNaNFraction(cm[<<o, c>>])
           /\ IsNaNFraction(cm[<<o, o>>])

(***************************************************************************)
(* C10.  With finite validation losses the stall counter never exceeds 2,  *)
(* EarlyStopping never stops the training, and fit runs exactly 3 epochs.  *)
(***************************************************************************)
C10_PatienceStopUnreachable ==
    AllFinite(lossPlan) =>
        /\ wait <= 2
        /\ Stall(history) <= 2
        /\ ~stop_training
        /\ FitReturned => (epoch = 3 /\ Len(history) = 3)

C10_Witness ==
    /\ AllFinite(lossPlan)
    /\ FitReturned
    /\ epoch = 3
    /\ wait = 2
    /\ Stall(history) = 2

====
